---- MODULE Spec2Model ----
(***************************************************************************)
(* A model of the treasure-hunt task environment                           *)
(* (src/code/utilities/task.py): the all-pairs distance table of the grid, *)
(* the enumeration of the state table S and the observation table O, the   *)
(* disk cache of the three tables, and the sampling of run configurations. *)
(*                                                                         *)
(* Nodes are 0-based inside eval_shortest_distances and 1-based in every   *)
(* table, as in the source.  A dictionary key f'{a}_to_{b}' is the pair    *)
(* <<a, b>>: the format is injective on pairs of positive integers.        *)
(***************************************************************************)
EXTENDS Integers, Sequences, FiniteSets, TLC

\* ------------------------------------------------------------------ bounds

\* Largest grid dimension where the tables are only computed (SpecDist,
\* SpecGrid).
MaxDim == 3

\* Largest grid dimension where Tasks are constructed over the disk cache.
MaxCacheDim == 2

\* Largest number of Tasks constructed one after the other.
MaxTasks == 2

\* The largest grid dimension of the sampled run configurations.
MaxConfigDim == 2

\* The largest number of hiding spots of the sampled run configurations.
MaxConfigHides == 2

\* The largest number of blocks of a run.
MaxBlocks == 2

\* The largest number of rounds of a block.
MaxRounds == 2

\* The largest number of get_task_state_values calls.
MaxCalls == 3

\* The largest number of (block, round) cells of the runs a Task is driven
\* through.
MaxCells == 2

\* The largest number of trials, eval_action calls, of such a run.
MaxTrials == 2

\* The largest number of processes that construct a Task at the same time.
MaxProcs == 2

\* What np.empty leaves in a cell: overwritten before it is ever read.
Empty == 0

\* np.nan, a value outside every range of nodes, colours and flags.  It is
\* never equal to anything, itself included: see FloatEq.
NaN == -1

\* ------------------------------------------------------------------ state

VARIABLES
    pc,                 \* position of the running method
    dim,                \* TaskNGridParameters.dim
    n_nodes,            \* TaskNGridParameters.n_nodes
    n_hides,            \* TaskNGridParameters.n_hides
    n_blocks,           \* TaskNGridParameters.n_blocks
    n_rounds,           \* TaskNGridParameters.n_rounds
    state_values,       \* TaskStatesConfigurator.state_values
    this_state_sample,  \* Paths.this_state_sample
    dirs,               \* the disk: the directories
    calls,              \* get_task_state_values calls so far
    s1,                 \* sample_s1: s1
    s2,                 \* sample_s2: s2
    s3,                 \* sample_s3: s3
    block,              \* sample_s1, sample_s3, sample_s2: block
    round_,             \* sample_s1, sample_s2: round_
    node_colors,        \* Task.node_colors
    t,                  \* Task.t, counted up by the caller with every trial
    c,                  \* Task.c
    s1_t,               \* Task.s1_t
    s2_t,               \* Task.s2_t
    s3_t,               \* Task.s3_t
    o_t,                \* Task.o_t
    r_t,                \* Task.r_t
    block_number,       \* start_new_block, start_new_round: block_number
    files,              \* the disk: file name -> content
    unreadable,         \* the disk: the files that cannot be read or parsed
    tasks,              \* the Tasks constructed so far, oldest first
    procs,              \* the processes that share the disk, each in
                        \* compute_or_load_shortest_distances
    ran,                \* the enumerations run by the construction under way
    loaded,             \* the cache files it found and loaded
    n,                  \* Task.n
    m,                  \* Task.m
    S,                  \* Task.S
    O_,                 \* Task.O_
    O2,                 \* Task.O2
    i,                  \* compute_set_S: i, the next row
    possible_position,  \* compute_set_S: the loop over positions (0-based)
    shortest_dist_dic,  \* Task.shortest_dist_dic
    adj_list,           \* eval_shortest_distances: adj_list
    start_node,         \* eval_shortest_distances: start_node (0-based)
    end_node,           \* eval_shortest_distances: end_node (0-based)
    queue,              \* eval_shortest_distances: queue of paths
    explored            \* eval_shortest_distances: explored

paramVars == <<dim, n_nodes, n_hides>>
runVars == <<n_blocks, n_rounds>>
sampleVars == <<s1, s2, s3, block, round_>>
configVars == <<runVars, state_values, this_state_sample, dirs, calls,
                sampleVars>>
logVars == <<ran, loaded>>
setVars == <<n, m, S, O_, O2, i, possible_position>>
bfsVars == <<adj_list, start_node, end_node, queue, explored>>
taskVars == <<files, unreadable, tasks, procs, logVars, setVars>>
dynVars == <<node_colors, t, c, s1_t, s2_t, s3_t, o_t, r_t, block_number>>
vars == <<pc, paramVars, dynVars, configVars, taskVars, shortest_dist_dic,
          bfsVars>>

\* ---------------------------------------------------------------- helpers

\* The empty Python dict / an empty function.
EmptyDict == [x \in {} |-> 0]

\* d[k] = v on a Python dict.
DictSet(d, k, v) == (k :> v) @@ d

\* list.sort() on a list of integers.
RECURSIVE ListSort(_)
ListSort(s) ==
    IF s = <<>> THEN <<>>
    ELSE LET x == Head(s)
             rest == ListSort(Tail(s))
         IN SelectSeq(rest, LAMBDA y : y < x) \o <<x>>
                \o SelectSeq(rest, LAMBDA y : y >= x)

\* x in list
InSeq(x, s) == \E k \in 1..Len(s) : s[k] = x

\* a == b on two floats: NaN equals nothing.
FloatEq(a, b) == a # NaN /\ b # NaN /\ a = b

\* math.factorial
RECURSIVE factorial(_)
factorial(k) == IF k <= 0 THEN 1 ELSE k * factorial(k - 1)

\* The members of a finite set of integers in ascending order.
RECURSIVE Ascending(_)
Ascending(set) ==
    IF set = {} THEN <<>>
    ELSE LET least == CHOOSE x \in set : \A y \in set : x <= y
         IN <<least>> \o Ascending(set \ {least})

\* [v] + p for every p of a list of tuples.
PrependAll(v, tuples) == [k \in 1..Len(tuples) |-> <<v>> \o tuples[k]]

\* A list without the first occurrence of v.
RemoveFirst(items, v) ==
    LET k == CHOOSE j \in 1..Len(items) :
                 items[j] = v /\ \A l \in 1..(j - 1) : items[l] # v
    IN SubSeq(items, 1, k - 1) \o SubSeq(items, k + 1, Len(items))

\* sorted(more_itertools.distinct_combinations(items, r)) for an ascending
\* list of different items: the r-subsets, each ascending, in lexicographic
\* order.
RECURSIVE SortedDistinctCombinations(_, _)
SortedDistinctCombinations(items, r) ==
    IF r = 0 THEN << <<>> >>
    ELSE IF Len(items) < r THEN <<>>
    ELSE PrependAll(Head(items), SortedDistinctCombinations(Tail(items), r - 1))
             \o SortedDistinctCombinations(Tail(items), r)

\* sorted(more_itertools.distinct_permutations(items, r)): the different
\* r-tuples drawn from the list without replacement, in lexicographic order.
\* PermutationsFrom lists those whose first value is values[k] or later.
RECURSIVE SortedDistinctPermutations(_, _)
RECURSIVE PermutationsFrom(_, _, _, _)
PermutationsFrom(items, r, values, k) ==
    IF k > Len(values) THEN <<>>
    ELSE PrependAll(values[k],
                    SortedDistinctPermutations(RemoveFirst(items, values[k]),
                                               r - 1))
             \o PermutationsFrom(items, r, values, k + 1)
SortedDistinctPermutations(items, r) ==
    IF r = 0 THEN << <<>> >>
    ELSE PermutationsFrom(items, r,
                          Ascending({items[k] : k \in 1..Len(items)}), 1)

\* [v] * k
Repeat(v, k) == [j \in 1..k |-> v]

\* np.full((rows, columns), value)
Full(rows, columns, value) == Repeat(Repeat(value, columns), rows)

\* ------------------------------------------------- TaskNGridParameters

\* __post_init__: n_nodes = dim ** 2
PostInit(d) == d * d

\* ----------------------------------------------- eval_shortest_distances

\* self.A: the action set, (drill, up, right, down, left).
A(d) == <<0, -d, 1, d, -1>>

\* moves = self.A[:4]
moves(d) == SubSeq(A(d), 1, 4)

\* The test that lets move extend row_list of a node.
MoveAllowed(node, move, d, nn) ==
    /\ (node + move) >= 0
    /\ (node + move) < nn
    /\ \/ (node % d # 0) /\ move = -1
       \/ ((node + 1) % d # 0) /\ move = 1
       \/ move \in {d, -d}

\* row_list of a node after the first k moves of the loop over moves.
RECURSIVE RowList(_, _, _, _)
RowList(node, d, nn, k) ==
    IF k = 0 THEN <<>>
    ELSE LET prev == RowList(node, d, nn, k - 1)
             move == moves(d)[k]
         IN IF MoveAllowed(node, move, d, nn)
            THEN ListSort(Append(prev, node + move))
            ELSE prev

\* adj_list: node -> sorted list of the nodes one allowed move away.
AdjList(d, nn) == [node \in 0..(nn - 1) |-> RowList(node, d, nn, Len(moves(d)))]

\* The dictionary key of an ordered pair of 0-based nodes.
Key(a, b) == <<a + 1, b + 1>>

\* A path's length counted in nodes instead of moves.
PathDistanceInNodes(path) == Len(path)

\* shortest_distance = len(shortest_path) - 1
PathDistance(path) == Len(path) - 1

\* Only the start->end entry is written.
WriteForwardOnly(dic, s, e, v) == DictSet(dic, Key(s, e), v)

\* The two writes of one found distance: start->end and end->start.
WriteBoth(dic, s, e, v) == DictSet(DictSet(dic, Key(s, e), v), Key(e, s), v)

\* queue[0]: the oldest path is read and left in the queue.
PeekPath(q) == [path |-> Head(q), rest |-> q]

\* queue.pop(): the newest path is popped instead of the oldest.
PopNewestPath(q) == [path |-> q[Len(q)], rest |-> SubSeq(q, 1, Len(q) - 1)]

\* path = queue.pop(0): the path popped and the queue left.
PopPath(q) == [path |-> Head(q), rest |-> Tail(q)]

\* The loop over the neighbours of an unexplored node, from neighbour k on:
\* every neighbour's path is queued; the end node's distance is written,
\* the queue emptied and the loop left.
RECURSIVE ForNeighbours(_, _, _, _, _, _, _)
ForNeighbours(neighbours, k, path, q, dic, s, e) ==
    IF k > Len(neighbours) THEN [queue |-> q, dic |-> dic]
    ELSE LET new_path == Append(path, neighbours[k])
             q2 == Append(q, new_path)
         IN IF neighbours[k] = e
            THEN [queue |-> <<>>,
                  dic |-> WriteBoth(dic, s, e, PathDistance(new_path))]
            ELSE ForNeighbours(neighbours, k + 1, path, q2, dic, s, e)

\* One pass through the body of "while queue".
WhileBody(q, expl, dic, adj, s, e) ==
    LET p == PopPath(q)
        node == p.path[Len(p.path)]
    IN IF ~InSeq(node, expl)
       THEN LET r == ForNeighbours(adj[node], 1, p.path, p.rest, dic, s, e)
            IN [queue |-> r.queue, explored |-> Append(expl, node),
                dic |-> r.dic]
       ELSE [queue |-> p.rest, explored |-> expl, dic |-> dic]

\* The whole "while queue" loop of one pair.
RECURSIVE WhileLoop(_, _, _, _, _, _)
WhileLoop(q, expl, dic, adj, s, e) ==
    IF q = <<>> THEN dic
    ELSE LET r == WhileBody(q, expl, dic, adj, s, e)
         IN WhileLoop(r.queue, r.explored, r.dic, adj, s, e)

\* The body of the loop over end nodes, for one pair.
SearchPair(dic, adj, s, e) ==
    IF s = e THEN WriteBoth(dic, s, e, 0)
    ELSE WhileLoop(<<<<s>>>>, <<>>, dic, adj, s, e)

\* The headers of "for start_node in range(n_nodes)" and "for end_node in
\* range(n_nodes)": the pair after (s, e); the loops are over once
\* start_node reaches n_nodes.
NextPair(s, e, nn) ==
    IF e + 1 < nn THEN [start_node |-> s, end_node |-> e + 1]
    ELSE [start_node |-> s + 1, end_node |-> 0]

\* The two loops from the pair held in st on; st is the dictionary and the
\* two loop variables.
RECURSIVE ForPairs(_, _, _)
ForPairs(st, adj, nn) ==
    IF st.start_node >= nn THEN st.dic
    ELSE LET nx == NextPair(st.start_node, st.end_node, nn)
         IN ForPairs([dic |-> SearchPair(st.dic, adj, st.start_node,
                                         st.end_node),
                      start_node |-> nx.start_node,
                      end_node |-> nx.end_node],
                     adj, nn)

\* eval_shortest_distances run to its end on the dictionary dic.
EvalShortestDistances(dic, d, nn) ==
    ForPairs([dic |-> dic, start_node |-> 0, end_node |-> 0],
             AdjList(d, nn), nn)

\* -------------------------------- eval_shortest_distances, step by step

\* The adjacency list is built and the two loops are entered.
EsdBegin ==
    /\ pc = "esd_begin"
    /\ adj_list' = AdjList(dim, n_nodes)
    /\ start_node' = 0
    /\ end_node' = 0
    /\ pc' = "esd_pair"
    /\ UNCHANGED <<paramVars, dynVars, configVars, taskVars, shortest_dist_dic, queue, explored>>

\* The loop headers: the next pair, or the end of both loops.
EsdAdvance ==
    /\ pc = "esd_next"
    /\ LET nx == NextPair(start_node, end_node, n_nodes)
       IN /\ start_node' = nx.start_node
          /\ end_node' = nx.end_node
          /\ pc' = IF nx.start_node >= n_nodes THEN "esd_done" ELSE "esd_pair"
    /\ UNCHANGED <<paramVars, dynVars, configVars, taskVars, shortest_dist_dic, adj_list, queue,
                   explored>>

\* start_node == end_node: the two zero entries.
EsdSamePair ==
    /\ pc = "esd_pair"
    /\ start_node = end_node
    /\ shortest_dist_dic' = WriteBoth(shortest_dist_dic, start_node, end_node, 0)
    /\ pc' = "esd_next"
    /\ UNCHANGED <<paramVars, dynVars, configVars, taskVars, bfsVars>>

\* start_node != end_node: the search is set up.
EsdStartSearch ==
    /\ pc = "esd_pair"
    /\ start_node # end_node
    /\ explored' = <<>>
    /\ queue' = <<<<start_node>>>>
    /\ pc' = "esd_while"
    /\ UNCHANGED <<paramVars, dynVars, configVars, taskVars, shortest_dist_dic, adj_list, start_node, end_node>>

\* One pass through "while queue".
EsdWhileBody ==
    /\ pc = "esd_while"
    /\ queue # <<>>
    /\ LET r == WhileBody(queue, explored, shortest_dist_dic, adj_list,
                          start_node, end_node)
       IN /\ queue' = r.queue
          /\ explored' = r.explored
          /\ shortest_dist_dic' = r.dic
    /\ pc' = "esd_while"
    /\ UNCHANGED <<paramVars, dynVars, configVars, taskVars, adj_list, start_node, end_node>>

\* "while queue" ends on the empty queue.
EsdWhileExit ==
    /\ pc = "esd_while"
    /\ queue = <<>>
    /\ pc' = "esd_next"
    /\ UNCHANGED <<paramVars, dynVars, configVars, taskVars, shortest_dist_dic, bfsVars>>

\* ------------------------------------------------------ the disk cache

\* f'shortest_dist_dim-{dim}.json'
ShortDistFn(d) == <<"shortest_dist_dim", d>>

\* DataHandler.create_matrix_fn: one name per (matrix, n_nodes, n_hides).
CreateMatrixFn(matrix_name, nn, nh) == <<matrix_name, nn, nh>>

\* os.path.exists
Exists(fn) == fn \in DOMAIN files

\* The failure is caught and the table computed and saved again.
RecomputeOnUnreadable(error, compute) == compute

\* A file that cannot be read or parsed: json.load and pickle.load raise,
\* and nothing around them catches the error.
OnUnreadable(error, compute) == error

\* The file is written before the dictionary is filled: an empty object.
JsonDumpEmpty(dic) == {}

\* json.dump of a dict from key strings to ints: the members of the object.
JsonDump(dic) == {[name |-> k, number |-> dic[k]] : k \in DOMAIN dic}

\* json.load: the dict of the members read.
JsonLoad(text) ==
    [k \in {x.name : x \in text} |->
        (CHOOSE x \in text : x.name = k).number]

\* pickle.dump / DataHandler.save_arrays of one array.
PickleDump(array) == [pickled |-> array]

\* pickle.load
PickleLoad(content) == content.pickled

\* ------------------------------------------------- the tables S and O

\* Nothing was run yet by the construction under way.
NothingRan ==
    [eval_shortest_distances |-> 0, compute_set_S |-> 0,
     compute_O2 |-> 0, compute_set_O |-> 0]

\* One more run of a method.
OneMore(method) == [ran EXCEPT ![method] = @ + 1]

\* The hiding spots counted in every order they can be drawn in.
CardinalityOfOrderedSpots(nn, nh) ==
    nn * nh * (factorial(nn) \div factorial(nn - nh))

\* compute_S_cardinality_n.  The quotient of the factorials is a binomial
\* coefficient, so the float division of the source is exact.
ComputeSCardinalityN(nn, nh) ==
    LET n_S1 == nn
        n_S3 == factorial(nn) \div (factorial(nn - nh) * factorial(nh))
    IN n_S1 * nh * n_S3

\* hide_combos of compute_set_S
HideCombos(nn, nh) == SortedDistinctCombinations([k \in 1..nn |-> k], nh)

\* The rule tests the position instead of the treasure location.
FeasibleByPosition(position, tr_loc, combo) == InSeq(position, combo)

\* The rule that keeps a row: the treasure lies on a hiding spot.
Feasible(position, tr_loc, combo) == InSeq(tr_loc, combo)

\* The first two columns are written the other way round.
WriteStateRowSwapped(st, position, tr_loc, combo) ==
    IF st.raised \/ st.i >= Len(st.S) THEN [st EXCEPT !.raised = TRUE]
    ELSE [S |-> [st.S EXCEPT ![st.i + 1] = <<tr_loc, position>> \o combo],
          i |-> st.i + 1,
          raised |-> FALSE]

\* The three writes into row i (0-based) of S; a row past the end of the
\* array raises IndexError.
WriteStateRow(st, position, tr_loc, combo) ==
    IF st.raised \/ st.i >= Len(st.S) THEN [st EXCEPT !.raised = TRUE]
    ELSE [S |-> [st.S EXCEPT ![st.i + 1] = <<position, tr_loc>> \o combo],
          i |-> st.i + 1,
          raised |-> FALSE]

\* for hiding_spot_combo in hide_combos, from combo k on.
RECURSIVE ForHideCombos(_, _, _, _, _)
ForHideCombos(st, position, tr_loc, combos, k) ==
    IF k > Len(combos) \/ st.raised THEN st
    ELSE ForHideCombos(
             IF Feasible(position, tr_loc, combos[k])
             THEN WriteStateRow(st, position, tr_loc, combos[k])
             ELSE st,
             position, tr_loc, combos, k + 1)

\* for possible_tr_loc in range(n_nodes), from the 1-based location on.
RECURSIVE ForTreasureLocs(_, _, _, _, _)
ForTreasureLocs(st, position, tr_loc, nn, combos) ==
    IF tr_loc > nn \/ st.raised THEN st
    ELSE ForTreasureLocs(ForHideCombos(st, position, tr_loc, combos, 1),
                         position, tr_loc + 1, nn, combos)

\* An urn with a blue value for every node.
UrnValuesAllBlue(nn, nh) == Repeat(0, nn) \o Repeat(1, nn - nh) \o Repeat(2, nn)

\* An urn without the unvisited values.
UrnValuesNoUnvisited(nn, nh) == Repeat(1, nn - nh) \o Repeat(2, nh)

\* urn_values of compute_O2
UrnValues(nn, nh) == Repeat(0, nn) \o Repeat(1, nn - nh) \o Repeat(2, nh)

\* compute_O2
ComputeO2(nn, nh) == SortedDistinctPermutations(UrnValues(nn, nh), nn)

\* n_node_color_combinations of compute_O_cardinality_m
NodeColorCombinations(o2) == Len(o2)

\* compute_set_O: row i is flag o1 before colours o2, flag by flag; the rows
\* past 2 * len(O2) keep what they held, and a table too short for them
\* raises IndexError.
ComputeSetO(table, o2) ==
    [raised |-> 2 * Len(o2) > Len(table),
     O_ |-> [k \in 1..Len(table) |->
                IF k <= Len(o2) THEN <<0>> \o o2[k]
                ELSE IF k <= 2 * Len(o2) THEN <<1>> \o o2[k - Len(o2)]
                ELSE table[k]]]

\* ---------------------------------------------- TaskStatesConfigurator

\* The labels of the run configurations asked for.
Labels == {"exp_msc"}

\* np.random.choice(np.arange(1, nn + 1), size): every outcome, drawn with
\* the default replace=True.
ChoiceWithReplacement(nn, size) == [1..size -> 1..nn]

\* np.random.choice(np.arange(1, nn + 1), size, replace=False): every
\* outcome, the draws in the order they were made.
ChoiceWithoutReplacement(nn, size) ==
    {draw \in [1..size -> 1..nn] :
        \A j, k \in 1..size : j # k => draw[j] # draw[k]}

\* The cell after [block, round_] in the two nested range loops.
NextCell(b, r, rounds) ==
    IF r + 1 < rounds THEN [block |-> b, round_ |-> r + 1]
    ELSE [block |-> b + 1, round_ |-> 0]

\* add_config_paths: the directory of a label below Paths.state_samples
AddConfigPaths(config_label) == <<"state_samples", config_label>>

\* The .npy file of a key in a directory.
NpyFile(directory, key) == <<directory[1], directory[2], key>>

\* np.save of a two-dimensional array: its shape and its cells, row-major.
NpSave(array) ==
    LET rows == Len(array)
        columns == Len(array[1])
    IN [shape |-> <<rows, columns>>,
        data |-> [k \in 1..(rows * columns) |->
                     array[((k - 1) \div columns) + 1][((k - 1) % columns) + 1]]]

\* The cells of the file read column by column.
NpLoadColumnMajor(content) ==
    [r \in 1..content.shape[1] |->
        [col \in 1..content.shape[2] |->
            content.data[(col - 1) * content.shape[1] + r]]]

\* np.load
NpLoad(content) ==
    [r \in 1..content.shape[1] |->
        [col \in 1..content.shape[2] |->
            content.data[(r - 1) * content.shape[2] + col]]]

\* The rows of state_values.tsv: block, round, s3, s1, s2.
StateValuesTsv(values, blocks, rounds) ==
    [k \in 1..(blocks * rounds) |->
        LET b == ((k - 1) \div rounds) + 1
            r == ((k - 1) % rounds) + 1
        IN <<b, r, values["s3"][b], values["s1"][b][r], values["s2"][b][r]>>]

\* load_task_states
LoadTaskStates(directory) ==
    [item \in {"s1", "s2", "s3"} |-> NpLoad(files[NpyFile(directory, item)])]

\* The numbers the caller supplied are kept.
SuppliedShape(values, blocks, rounds) == <<blocks, rounds>>

\* list(self.state_values.values())[0].shape[0] and
\* len(self.state_values["s1"][0]): the first value is that of "s1"
LoadedShape(values, blocks, rounds) ==
    <<Len(values["s1"]), Len(values["s1"][1])>>

\* TaskStatesConfigurator.__init__: a new configurator, with the numbers of
\* blocks and rounds its caller supplies, for the same grid.
ConfiguratorInit ==
    /\ pc = "returned"
    /\ calls < MaxCalls
    /\ n_blocks' \in 1..MaxBlocks
    /\ n_rounds' \in 1..MaxRounds
    /\ state_values' = EmptyDict
    /\ pc' = "idle"
    /\ UNCHANGED <<paramVars, dynVars, this_state_sample, dirs, calls, sampleVars,
                   taskVars, shortest_dist_dic, bfsVars>>

\* get_task_state_values: a new directory is sampled into, a known one is
\* loaded and sets the numbers of blocks and rounds.  The first value of
\* state_values is that of "s1", the first key written on either way.
GetTaskStateValues ==
    /\ pc \in {"idle", "returned"}
    /\ calls < MaxCalls
    /\ calls' = calls + 1
    /\ \E config_label \in Labels :
           /\ this_state_sample' = AddConfigPaths(config_label)
           /\ IF this_state_sample' \notin dirs
              THEN /\ pc' = "sample_s1"
                   /\ UNCHANGED <<state_values, runVars>>
              ELSE /\ state_values' = LoadTaskStates(this_state_sample')
                   /\ n_blocks' = LoadedShape(state_values', n_blocks, n_rounds)[1]
                   /\ n_rounds' = LoadedShape(state_values', n_blocks, n_rounds)[2]
                   /\ pc' = "returned"
    /\ UNCHANGED <<paramVars, dynVars, dirs, sampleVars, taskVars, shortest_dist_dic,
                   bfsVars>>

\* sample_s1: s1 = np.empty(...)
SampleS1Begin ==
    /\ pc = "sample_s1"
    /\ s1' = Full(n_blocks, n_rounds, Empty)
    /\ block' = 0
    /\ round_' = 0
    /\ pc' = "s1_loop"
    /\ UNCHANGED <<paramVars, dynVars, runVars, state_values, this_state_sample, dirs,
                   calls, s2, s3, taskVars, shortest_dist_dic, bfsVars>>

\* sample_s1: one pass of the inner loop
SampleS1Draw ==
    /\ pc = "s1_loop"
    /\ block < n_blocks
    /\ \E draw \in ChoiceWithReplacement(n_nodes, 1) :
           s1' = [s1 EXCEPT ![block + 1][round_ + 1] = draw[1]]
    /\ block' = NextCell(block, round_, n_rounds).block
    /\ round_' = NextCell(block, round_, n_rounds).round_
    /\ UNCHANGED <<pc, paramVars, dynVars, runVars, state_values, this_state_sample,
                   dirs, calls, s2, s3, taskVars, shortest_dist_dic, bfsVars>>

\* sample_s1: self.state_values['s1'] = s1
SampleS1End ==
    /\ pc = "s1_loop"
    /\ block >= n_blocks
    /\ state_values' = DictSet(state_values, "s1", s1)
    /\ pc' = "sample_s3"
    /\ UNCHANGED <<paramVars, dynVars, runVars, this_state_sample, dirs, calls,
                   sampleVars, taskVars, shortest_dist_dic, bfsVars>>

\* sample_s3: s3 = np.empty(...)
SampleS3Begin ==
    /\ pc = "sample_s3"
    /\ s3' = Full(n_blocks, n_hides, Empty)
    /\ block' = 0
    /\ pc' = "s3_loop"
    /\ UNCHANGED <<paramVars, dynVars, runVars, state_values, this_state_sample, dirs,
                   calls, s1, s2, round_, taskVars, shortest_dist_dic,
                   bfsVars>>

\* sample_s3: one pass of the loop.  More hiding spots than nodes cannot be
\* drawn without replacement: np.random.choice raises ValueError.
SampleS3Draw ==
    /\ pc = "s3_loop"
    /\ block < n_blocks
    /\ IF n_hides > n_nodes
       THEN /\ pc' = "ValueError"
            /\ UNCHANGED <<s3, block>>
       ELSE /\ \E draw \in ChoiceWithoutReplacement(n_nodes, n_hides) :
                   s3' = [s3 EXCEPT ![block + 1] = draw]
            /\ block' = block + 1
            /\ UNCHANGED pc
    /\ UNCHANGED <<paramVars, dynVars, runVars, state_values, this_state_sample, dirs,
                   calls, s1, s2, round_, taskVars, shortest_dist_dic,
                   bfsVars>>

\* sample_s3: self.state_values['s3'] = s3
SampleS3End ==
    /\ pc = "s3_loop"
    /\ block >= n_blocks
    /\ state_values' = DictSet(state_values, "s3", s3)
    /\ pc' = "sample_s2"
    /\ UNCHANGED <<paramVars, dynVars, runVars, this_state_sample, dirs, calls,
                   sampleVars, taskVars, shortest_dist_dic, bfsVars>>

\* sample_s2: s2 = np.empty(...)
SampleS2Begin ==
    /\ pc = "sample_s2"
    /\ s2' = Full(n_blocks, n_rounds, Empty)
    /\ block' = 0
    /\ round_' = 0
    /\ pc' = "s2_loop"
    /\ UNCHANGED <<paramVars, dynVars, runVars, state_values, this_state_sample, dirs,
                   calls, s1, s3, taskVars, shortest_dist_dic, bfsVars>>

\* sample_s2: the treasure is set to the start position
SampleS2Copy ==
    /\ pc = "s2_loop"
    /\ block < n_blocks
    /\ s2' = [s2 EXCEPT ![block + 1][round_ + 1] =
                            state_values["s1"][block + 1][round_ + 1]]
    /\ pc' = "s2_while"
    /\ UNCHANGED <<paramVars, dynVars, runVars, state_values, this_state_sample, dirs,
                   calls, s1, s3, block, round_, taskVars, shortest_dist_dic,
                   bfsVars>>

\* The start positions of the block, drawn from in place of its hiding spots.
DrawPoolStarts(values, b) == values["s1"][b + 1]

\* self.state_values['s3'][block], what the treasure is drawn from
DrawPool(values, b) == values["s3"][b + 1]

\* sample_s2: the pass of the while loop that draws the k-th hiding spot
SampleS2DrawSpot(k) ==
    /\ pc = "s2_while"
    /\ s2[block + 1][round_ + 1] = state_values["s1"][block + 1][round_ + 1]
    /\ k \in 1..Len(DrawPool(state_values, block))
    /\ s2' = [s2 EXCEPT ![block + 1][round_ + 1] =
                            DrawPool(state_values, block)[k]]
    /\ UNCHANGED <<pc, paramVars, dynVars, runVars, state_values, this_state_sample,
                   dirs, calls, s1, s3, block, round_, taskVars,
                   shortest_dist_dic, bfsVars>>

\* sample_s2: one pass of the while loop, a draw among the hiding spots of
\* the block
SampleS2Draw ==
    /\ pc = "s2_while"
    /\ \E k \in 1..Len(DrawPool(state_values, block)) : SampleS2DrawSpot(k)

\* sample_s2: the while loop is left, the next round follows
SampleS2Next ==
    /\ pc = "s2_while"
    /\ s2[block + 1][round_ + 1] # state_values["s1"][block + 1][round_ + 1]
    /\ block' = NextCell(block, round_, n_rounds).block
    /\ round_' = NextCell(block, round_, n_rounds).round_
    /\ pc' = "s2_loop"
    /\ UNCHANGED <<paramVars, dynVars, runVars, state_values, this_state_sample, dirs,
                   calls, s1, s2, s3, taskVars, shortest_dist_dic, bfsVars>>

\* sample_s2: self.state_values['s2'] = s2
SampleS2End ==
    /\ pc = "s2_loop"
    /\ block >= n_blocks
    /\ state_values' = DictSet(state_values, "s2", s2)
    /\ pc' = "save_task_config"
    /\ UNCHANGED <<paramVars, dynVars, runVars, this_state_sample, dirs, calls,
                   sampleVars, taskVars, shortest_dist_dic, bfsVars>>

\* The files save_task_config writes into a directory.
ConfigFiles(directory, values, blocks, rounds) ==
    [fn \in {NpyFile(directory, key) : key \in DOMAIN values} |->
        NpSave(values[fn[3]])]
    @@ (NpyFile(directory, "state_values.tsv") :>
            StateValuesTsv(values, blocks, rounds))

\* save_task_config: os.makedirs raises FileExistsError for a directory
\* that is there.
SaveTaskConfig ==
    /\ pc = "save_task_config"
    /\ IF this_state_sample \in dirs
       THEN /\ pc' = "FileExistsError"
            /\ UNCHANGED <<dirs, files, unreadable>>
       ELSE /\ dirs' = dirs \cup {this_state_sample}
            /\ files' = ConfigFiles(this_state_sample, state_values,
                                    n_blocks, n_rounds) @@ files
            /\ UNCHANGED unreadable
            /\ pc' = "returned"
    /\ UNCHANGED procs
    /\ UNCHANGED <<paramVars, dynVars, runVars, state_values, this_state_sample, calls,
                   sampleVars, tasks, logVars, setVars, shortest_dist_dic,
                   bfsVars>>

\* ------------------------------------------------------- Task.__init__

\* What a caller keeps of a constructed Task, with the log of its
\* construction.
TaskObject ==
    [S |-> S, O_ |-> O_, shortest_dist_dic |-> shortest_dist_dic,
     n |-> n, m |-> m, ran |-> ran, loaded |-> loaded]

\* Task(...) is called: the fields set before the cardinalities.
TaskNew ==
    /\ pc = "idle"
    /\ Len(tasks) < MaxTasks
    /\ shortest_dist_dic' = EmptyDict
    /\ ran' = NothingRan
    /\ loaded' = {}
    /\ n' = 0
    /\ m' = 0
    /\ S' = <<>>
    /\ O_' = <<>>
    /\ O2' = <<>>
    /\ pc' = "init_n"
    /\ UNCHANGED procs
    /\ UNCHANGED <<paramVars, dynVars, configVars, files, unreadable, tasks, i, possible_position, bfsVars>>

\* self.n = self.compute_S_cardinality_n()
TaskCardinalityN ==
    /\ pc = "init_n"
    /\ n' = ComputeSCardinalityN(n_nodes, n_hides)
    /\ pc' = "init_m"
    /\ UNCHANGED procs
    /\ UNCHANGED <<paramVars, dynVars, configVars, files, unreadable, tasks, logVars, m, S, O_, O2, i,
                   possible_position, shortest_dist_dic, bfsVars>>

\* self.m = self.compute_O_cardinality_m(), which runs compute_O2.
TaskCardinalityM ==
    /\ pc = "init_m"
    /\ O2' = ComputeO2(n_nodes, n_hides)
    /\ m' = 2 * NodeColorCombinations(O2')
    /\ ran' = OneMore("compute_O2")
    /\ pc' = "init_alloc"
    /\ UNCHANGED procs
    /\ UNCHANGED <<paramVars, dynVars, configVars, files, unreadable, tasks, loaded, n, S, O_, i,
                   possible_position, shortest_dist_dic, bfsVars>>

\* self.S and self.O_ are allocated, full of NaN.
TaskAllocate ==
    /\ pc = "init_alloc"
    /\ S' = Full(n, 2 + n_hides, NaN)
    /\ O_' = Full(m, 1 + n_nodes, NaN)
    /\ pc' = "S_check"
    /\ UNCHANGED procs
    /\ UNCHANGED <<paramVars, dynVars, configVars, files, unreadable, tasks, logVars, n, m, O2, i,
                   possible_position, shortest_dist_dic, bfsVars>>

\* compute_or_load_sets: is the file of S there?
SetSCheck ==
    /\ pc = "S_check"
    /\ pc' = IF Exists(CreateMatrixFn("set_S", n_nodes, n_hides))
             THEN "S_load" ELSE "S_compute"
    /\ UNCHANGED <<paramVars, dynVars, configVars, taskVars, shortest_dist_dic, bfsVars>>

\* self.S = pickle.load(file)
SetSLoad ==
    /\ pc = "S_load"
    /\ IF CreateMatrixFn("set_S", n_nodes, n_hides) \in unreadable
       THEN /\ pc' = OnUnreadable("UnpicklingError", "S_compute")
            /\ UNCHANGED <<S, loaded>>
       ELSE /\ S' = PickleLoad(files[CreateMatrixFn("set_S", n_nodes, n_hides)])
            /\ loaded' = loaded \cup {"set_S"}
            /\ pc' = "O_check"
    /\ UNCHANGED procs
    /\ UNCHANGED <<paramVars, dynVars, configVars, files, unreadable, tasks, ran, n, m, O_, O2, i,
                   possible_position, shortest_dist_dic, bfsVars>>

\* compute_set_S is entered.
SetSComputeBegin ==
    /\ pc = "S_compute"
    /\ i' = 0
    /\ possible_position' = 0
    /\ ran' = OneMore("compute_set_S")
    /\ pc' = "S_loop"
    /\ UNCHANGED procs
    /\ UNCHANGED <<paramVars, dynVars, configVars, files, unreadable, tasks, loaded, n, m, S, O_, O2,
                   shortest_dist_dic, bfsVars>>

\* One pass of the loop over positions: the rows of one position.
SetSComputePosition ==
    /\ pc = "S_loop"
    /\ possible_position < n_nodes
    /\ LET st == ForTreasureLocs([S |-> S, i |-> i, raised |-> FALSE],
                                 possible_position + 1, 1, n_nodes,
                                 HideCombos(n_nodes, n_hides))
       IN /\ S' = st.S
          /\ i' = st.i
          /\ pc' = IF st.raised THEN "IndexError" ELSE "S_loop"
    /\ possible_position' = possible_position + 1
    /\ UNCHANGED procs
    /\ UNCHANGED <<paramVars, dynVars, configVars, files, unreadable, tasks, logVars, n, m, O_, O2,
                   shortest_dist_dic, bfsVars>>

\* The loop over positions ends.
SetSComputeEnd ==
    /\ pc = "S_loop"
    /\ possible_position >= n_nodes
    /\ pc' = "S_save"
    /\ UNCHANGED <<paramVars, dynVars, configVars, taskVars, shortest_dist_dic, bfsVars>>

\* data_handler.save_arrays(..., set_S=self.S)
SetSSave ==
    /\ pc = "S_save"
    /\ files' = DictSet(files, CreateMatrixFn("set_S", n_nodes, n_hides),
                        PickleDump(S))
    /\ unreadable' = unreadable \ {CreateMatrixFn("set_S", n_nodes, n_hides)}
    /\ pc' = "O_check"
    /\ UNCHANGED procs
    /\ UNCHANGED <<paramVars, dynVars, configVars, tasks, logVars, setVars, shortest_dist_dic,
                   bfsVars>>

\* compute_or_load_sets: is the file of O there?
SetOCheck ==
    /\ pc = "O_check"
    /\ pc' = IF Exists(CreateMatrixFn("set_O", n_nodes, n_hides))
             THEN "O_load" ELSE "O_compute"
    /\ UNCHANGED <<paramVars, dynVars, configVars, taskVars, shortest_dist_dic, bfsVars>>

\* self.O_ = pickle.load(file)
SetOLoad ==
    /\ pc = "O_load"
    /\ IF CreateMatrixFn("set_O", n_nodes, n_hides) \in unreadable
       THEN /\ pc' = OnUnreadable("UnpicklingError", "O_compute")
            /\ UNCHANGED <<O_, loaded>>
       ELSE /\ O_' = PickleLoad(files[CreateMatrixFn("set_O", n_nodes, n_hides)])
            /\ loaded' = loaded \cup {"set_O"}
            /\ pc' = "D_check"
    /\ UNCHANGED procs
    /\ UNCHANGED <<paramVars, dynVars, configVars, files, unreadable, tasks, ran, n, m, S, O2, i,
                   possible_position, shortest_dist_dic, bfsVars>>

\* self.compute_set_O()
SetOCompute ==
    /\ pc = "O_compute"
    /\ LET r == ComputeSetO(O_, O2)
       IN /\ O_' = r.O_
          /\ pc' = IF r.raised THEN "IndexError" ELSE "O_save"
    /\ ran' = OneMore("compute_set_O")
    /\ UNCHANGED procs
    /\ UNCHANGED <<paramVars, dynVars, configVars, files, unreadable, tasks, loaded, n, m, S, O2, i,
                   possible_position, shortest_dist_dic, bfsVars>>

\* data_handler.save_arrays(..., set_O=self.O_)
SetOSave ==
    /\ pc = "O_save"
    /\ files' = DictSet(files, CreateMatrixFn("set_O", n_nodes, n_hides),
                        PickleDump(O_))
    /\ unreadable' = unreadable \ {CreateMatrixFn("set_O", n_nodes, n_hides)}
    /\ pc' = "D_check"
    /\ UNCHANGED procs
    /\ UNCHANGED <<paramVars, dynVars, configVars, tasks, logVars, setVars, shortest_dist_dic,
                   bfsVars>>

\* compute_or_load_shortest_distances: is the json file there?
DistancesCheck ==
    /\ pc = "D_check"
    /\ pc' = IF Exists(ShortDistFn(dim)) THEN "D_load" ELSE "D_eval"
    /\ UNCHANGED <<paramVars, dynVars, configVars, taskVars, shortest_dist_dic, bfsVars>>

\* self.shortest_dist_dic = json.load(json_file)
DistancesLoad ==
    /\ pc = "D_load"
    /\ IF ShortDistFn(dim) \in unreadable
       THEN /\ pc' = OnUnreadable("JSONDecodeError", "D_eval")
            /\ UNCHANGED <<shortest_dist_dic, loaded>>
       ELSE /\ shortest_dist_dic' = JsonLoad(files[ShortDistFn(dim)])
            /\ loaded' = loaded \cup {"shortest_dist"}
            /\ pc' = "init_end"
    /\ UNCHANGED procs
    /\ UNCHANGED <<paramVars, dynVars, configVars, files, unreadable, tasks, ran, setVars, bfsVars>>

\* self.eval_shortest_distances(), run to its end.
DistancesEval ==
    /\ pc = "D_eval"
    /\ shortest_dist_dic' =
           EvalShortestDistances(shortest_dist_dic, dim, n_nodes)
    /\ ran' = OneMore("eval_shortest_distances")
    /\ pc' = "D_dump"
    /\ UNCHANGED procs
    /\ UNCHANGED <<paramVars, dynVars, configVars, files, unreadable, tasks, loaded, setVars, bfsVars>>

\* json.dump(self.shortest_dist_dic, json_file, indent=4)
DistancesDump ==
    /\ pc = "D_dump"
    /\ files' = DictSet(files, ShortDistFn(dim), JsonDump(shortest_dist_dic))
    /\ unreadable' = unreadable \ {ShortDistFn(dim)}
    /\ pc' = "init_end"
    /\ UNCHANGED procs
    /\ UNCHANGED <<paramVars, dynVars, configVars, tasks, logVars, setVars, shortest_dist_dic,
                   bfsVars>>

\* self.O2 = np.nan, and the Task is returned to its caller.
TaskDone ==
    /\ pc = "init_end"
    /\ O2' = NaN
    /\ tasks' = Append(tasks, TaskObject)
    /\ pc' = "idle"
    /\ UNCHANGED procs
    /\ UNCHANGED <<paramVars, dynVars, configVars, files, unreadable, logVars, n, m, S, O_, i,
                   possible_position, shortest_dist_dic, bfsVars>>

\* ------------------------- processes that share the distance-table file

\* A process reaches compute_or_load_shortest_distances with its own Task.
ProcStart ==
    /\ Len(procs) < MaxProcs
    /\ procs' = Append(procs, [pc |-> "D_check", shortest_dist_dic |-> EmptyDict])
    /\ UNCHANGED <<pc, paramVars, dynVars, configVars, files, unreadable, tasks,
                   logVars, setVars, shortest_dist_dic, bfsVars>>

\* if os.path.exists(short_dist_fn)
ProcCheck(p) ==
    /\ procs[p].pc = "D_check"
    /\ procs' = [procs EXCEPT ![p].pc =
                     IF Exists(ShortDistFn(dim)) THEN "D_load" ELSE "D_eval"]
    /\ UNCHANGED <<pc, paramVars, dynVars, configVars, files, unreadable, tasks,
                   logVars, setVars, shortest_dist_dic, bfsVars>>

\* open(short_dist_fn) and json.load: the file as it is on disk right now
ProcLoad(p) ==
    /\ procs[p].pc = "D_load"
    /\ procs' = IF ShortDistFn(dim) \in unreadable
                THEN [procs EXCEPT ![p].pc = OnUnreadable("JSONDecodeError", "D_eval")]
                ELSE [procs EXCEPT ![p].pc = "done",
                                   ![p].shortest_dist_dic =
                                       JsonLoad(files[ShortDistFn(dim)])]
    /\ UNCHANGED <<pc, paramVars, dynVars, configVars, files, unreadable, tasks,
                   logVars, setVars, shortest_dist_dic, bfsVars>>

\* self.eval_shortest_distances()
ProcEval(p) ==
    /\ procs[p].pc = "D_eval"
    /\ procs' = [procs EXCEPT ![p].pc = "D_open",
                              ![p].shortest_dist_dic =
                                  EvalShortestDistances(@, dim, n_nodes)]
    /\ UNCHANGED <<pc, paramVars, dynVars, configVars, files, unreadable, tasks,
                   logVars, setVars, shortest_dist_dic, bfsVars>>

\* open(short_dist_fn, 'w'): the file is created, or cut to length zero
OpenForWriting(disk, fn) == DictSet(disk, fn, {})

\* with open(short_dist_fn, 'w') as json_file: the file is there and empty,
\* which no json.load can parse
ProcOpen(p) ==
    /\ procs[p].pc = "D_open"
    /\ files' = OpenForWriting(files, ShortDistFn(dim))
    /\ unreadable' = unreadable \cup {ShortDistFn(dim)}
    /\ procs' = [procs EXCEPT ![p].pc = "D_dump"]
    /\ UNCHANGED <<pc, paramVars, dynVars, configVars, tasks, logVars, setVars,
                   shortest_dist_dic, bfsVars>>

\* json.dump(self.shortest_dist_dic, json_file, indent=4) and the end of
\* the with block: the text is on disk
ProcDump(p) ==
    /\ procs[p].pc = "D_dump"
    /\ files' = DictSet(files, ShortDistFn(dim),
                        JsonDump(procs[p].shortest_dist_dic))
    /\ unreadable' = unreadable \ {ShortDistFn(dim)}
    /\ procs' = [procs EXCEPT ![p].pc = "done"]
    /\ UNCHANGED <<pc, paramVars, dynVars, configVars, tasks, logVars, setVars,
                   shortest_dist_dic, bfsVars>>

\* ------------------------------------------------- the trial dynamics

\* x in array, for an array that may hold NaN
InArray(x, array) == \E k \in 1..Len(array) : FloatEq(array[k], x)

\* The draws of sample_s3 that list the hiding spots of a block ascending:
\* the Task only ever asks whether a node is among them.
AscendingSpots(nn, nh) ==
    {draw \in ChoiceWithoutReplacement(nn, nh) :
        \A k \in 1..(nh - 1) : draw[k] < draw[k + 1]}

\* Run configurations sample_task_states produces: a start position for
\* every round, hiding spots drawn without replacement for every block, a
\* treasure location for every round.
RunConfigurations(nn, nh, blocks, rounds) ==
    {[key \in {"s1", "s2", "s3"} |->
         CASE key = "s1" -> starts
           [] key = "s2" -> treasures
           [] key = "s3" -> spots] :
        starts \in [1..blocks -> [1..rounds -> 1..nn]],
        treasures \in [1..blocks -> [1..rounds -> 1..nn]],
        spots \in [1..blocks -> AscendingSpots(nn, nh)]}

\* What sample_s2 lets through: every treasure on a hiding spot of its
\* block and off the start position of its round.
TreasuresHidden(values, blocks, rounds) ==
    \A b \in 1..blocks : \A r \in 1..rounds :
        /\ InSeq(values["s2"][b][r], values["s3"][b])
        /\ values["s2"][b][r] # values["s1"][b][r]

\* The moves the caller offers at a position: those that stay on the grid
\* and in the row.
LegalMove(position, action_t, d, nn) ==
    \/ action_t = 0
    \/ action_t = -d /\ position - d >= 1
    \/ action_t = d /\ position + d <= nn
    \/ action_t = 1 /\ position % d # 0
    \/ action_t = -1 /\ (position - 1) % d # 0

\* The entry of the first round, whatever round is asked for.
CellOfFirstRound(values, key, b, round_number) ==
    values[key][b + 1][1]

\* self.state_values[key][block_number, round_number]
Cell(values, key, b, round_number) ==
    values[key][b + 1][round_number + 1]

\* The flag says whether the treasure lies where the step began.
RewardAtDeparture(position, action_t, treasure) ==
    IF position - action_t = treasure THEN 1 ELSE 0

\* eval_reward_r, for the position after the step
EvalRewardR(position, action_t, treasure) ==
    IF position = treasure THEN 1 ELSE 0

\* The flag and the colour of the current node alone, the rest unvisited.
ObservationOfPosition(reward, colors, position) ==
    <<IF reward = 0 THEN 0 ELSE 1>>
        \o [k \in 1..Len(colors) |-> IF k = position THEN colors[k] ELSE 0]

\* eval_obs_func_g: o_t[0] is the flag, o_t[1:] the node colours
Observation(reward, colors, position) ==
    <<IF reward = 0 THEN 0 ELSE 1>> \o colors

\* The displacement is taken off the position.
MoveBack(position, action_t) == position - action_t

\* self.s1_t += int(action_t)
EvalStateTransitionF(position, action_t) == position + action_t

\* start_new_block
StartNewBlock ==
    /\ pc = "ready"
    /\ block_number' \in 0..(n_blocks - 1)
    /\ s3_t' = state_values["s3"][block_number' + 1]
    /\ UNCHANGED <<pc, paramVars, node_colors, t, c, s1_t, s2_t, o_t, r_t,
                   configVars, taskVars, shortest_dist_dic, bfsVars>>

\* The flag of the round before is kept.
RewardKept(reward) == reward

\* self.r_t = 0
RewardAtRoundStart(reward) == 0

\* start_new_round
StartNewRound ==
    /\ pc = "ready"
    /\ block_number' \in 0..(n_blocks - 1)
    /\ \E round_number \in 0..(n_rounds - 1) :
           /\ c' = round_number
           /\ s1_t' = Cell(state_values, "s1", block_number', round_number)
           /\ s2_t' = Cell(state_values, "s2", block_number', round_number)
    /\ r_t' = RewardAtRoundStart(r_t)
    /\ UNCHANGED <<pc, paramVars, node_colors, t, s3_t, o_t, configVars,
                   taskVars, shortest_dist_dic, bfsVars>>

\* eval_obs_func_g
EvalObsFuncG ==
    /\ pc = "ready"
    /\ o_t' = Observation(r_t, node_colors, s1_t)
    /\ UNCHANGED <<pc, paramVars, node_colors, t, c, s1_t, s2_t, s3_t, r_t,
                   block_number, configVars, taskVars, shortest_dist_dic, bfsVars>>

\* Every entry gets the colour the drill finds.
ColoursAllRevealed(colors, position, spots) ==
    [k \in 1..Len(colors) |-> IF ~InArray(position, spots) THEN 1 ELSE 2]

\* self.node_colors[self.s1_t] = 1 off the hiding spots, = 2 on them
ColoursAfterDrill(colors, position, spots) ==
    [colors EXCEPT ![position + 1] = IF ~InArray(position, spots) THEN 1 ELSE 2]

\* eval_action with the drill, action 0: eval_state_transition_f writes
\* node_colors[s1_t], the entry of the 0-based array at the 1-based node
\* number, and raises IndexError for the last node.
EvalActionDrill ==
    /\ pc = "ready"
    /\ s1_t # NaN
    /\ t < MaxTrials
    /\ t' = t + 1
    /\ IF s1_t >= Len(node_colors)
       THEN /\ pc' = "IndexError"
            /\ UNCHANGED node_colors
       ELSE /\ node_colors' = ColoursAfterDrill(node_colors, s1_t, s3_t)
            /\ UNCHANGED pc
    /\ UNCHANGED <<paramVars, c, s1_t, s2_t, s3_t, o_t, r_t, block_number,
                   configVars,
                   taskVars, shortest_dist_dic, bfsVars>>

\* self.s1_t is a view of its cell of s1: the sum is written into the array.
WrittenThrough(values, b, round_number, position) ==
    [values EXCEPT !["s1"][b + 1][round_number + 1] = position]

\* state_values after self.s1_t += int(action_t): self.s1_t is the scalar
\* that indexing s1 with [block_number, round_number] returned, a copy, so
\* the sum is bound to self.s1_t and the array keeps its cell.
ValuesAfterMove(values, b, round_number, position) == values

\* eval_action with a move: eval_state_transition_f, then eval_reward_r
EvalActionMove ==
    /\ pc = "ready"
    /\ s1_t # NaN
    /\ t < MaxTrials
    /\ t' = t + 1
    /\ \E k \in 2..Len(A(dim)) :
           /\ LegalMove(s1_t, A(dim)[k], dim, n_nodes)
           /\ s1_t' = EvalStateTransitionF(s1_t, A(dim)[k])
           /\ r_t' = EvalRewardR(s1_t', A(dim)[k], s2_t)
    /\ state_values' = ValuesAfterMove(state_values, block_number, c, s1_t')
    /\ UNCHANGED <<pc, paramVars, node_colors, c, s2_t, s3_t, o_t,
                   block_number, runVars, this_state_sample, dirs, calls,
                   sampleVars, taskVars, shortest_dist_dic, bfsVars>>

\* ----------------------------------------------------- specifications

\* No table computed, no file on disk, no Task constructed.
BlankTables ==
    /\ files = EmptyDict
    /\ unreadable = {}
    /\ tasks = <<>>
    /\ procs = <<>>
    /\ ran = NothingRan
    /\ loaded = {}
    /\ n = 0
    /\ m = 0
    /\ S = <<>>
    /\ O_ = <<>>
    /\ O2 = <<>>
    /\ i = 0
    /\ possible_position = 0
    /\ shortest_dist_dic = EmptyDict
    /\ adj_list = EmptyDict
    /\ start_node = 0
    /\ end_node = 0
    /\ queue = <<>>
    /\ explored = <<>>

\* No Task to drive.
BlankDynamics ==
    /\ node_colors = <<>>
    /\ t = 0
    /\ c = 0
    /\ s1_t = NaN
    /\ s2_t = NaN
    /\ s3_t = <<>>
    /\ o_t = <<>>
    /\ r_t = 0
    /\ block_number = 0

\* No directory on disk, nothing asked of a configurator.
BlankSampling ==
    /\ this_state_sample = <<>>
    /\ dirs = {}
    /\ calls = 0
    /\ s1 = <<>>
    /\ s2 = <<>>
    /\ s3 = <<>>
    /\ block = 0
    /\ round_ = 0

\* Nothing on disk, no Task constructed, no method running.
Blank ==
    /\ BlankTables
    /\ BlankDynamics
    /\ BlankSampling
    /\ state_values = EmptyDict

InitDist ==
    /\ n_blocks = 1
    /\ n_rounds = 1
    /\ dim \in 1..MaxDim
    /\ n_nodes = PostInit(dim)
    /\ n_hides = 1
    /\ pc = "esd_begin"
    /\ Blank

NextDist ==
    \/ EsdBegin
    \/ EsdAdvance
    \/ EsdSamePair
    \/ EsdStartSearch
    \/ EsdWhileBody
    \/ EsdWhileExit

\* eval_shortest_distances alone, one loop pass per step.
SpecDist == InitDist /\ [][NextDist]_vars

\* eval_shortest_distances keeps running: nothing suspends its loops.
SpecDistFair == SpecDist /\ WF_vars(NextDist)

\* A grid and a number of hiding spots, an empty disk, no Task yet.
Init ==
    /\ n_blocks = 1
    /\ n_rounds = 1
    /\ dim \in 1..MaxCacheDim
    /\ n_nodes = PostInit(dim)
    /\ n_hides \in 1..n_nodes
    /\ pc = "idle"
    /\ Blank

\* The same with the grids of SpecDist.
InitGrid ==
    /\ n_blocks = 1
    /\ n_rounds = 1
    /\ dim \in 1..MaxDim
    /\ n_nodes = PostInit(dim)
    /\ n_hides \in 1..n_nodes
    /\ pc = "idle"
    /\ Blank

Next ==
    \/ TaskNew
    \/ TaskCardinalityN
    \/ TaskCardinalityM
    \/ TaskAllocate
    \/ SetSCheck
    \/ SetSLoad
    \/ SetSComputeBegin
    \/ SetSComputePosition
    \/ SetSComputeEnd
    \/ SetSSave
    \/ SetOCheck
    \/ SetOLoad
    \/ SetOCompute
    \/ SetOSave
    \/ DistancesCheck
    \/ DistancesLoad
    \/ DistancesEval
    \/ DistancesDump
    \/ TaskDone

\* Tasks constructed one after the other for one configuration, over one
\* disk that starts empty.
Spec == Init /\ [][Next]_vars

\* The same for the larger grids.
SpecGrid == InitGrid /\ [][Next]_vars

\* A grid, hiding spots, blocks and rounds; nothing sampled, nothing on disk.
InitConfig ==
    /\ dim \in 1..MaxConfigDim
    /\ n_nodes = PostInit(dim)
    /\ n_hides \in {h \in 1..MaxConfigHides : h <= n_nodes}
    /\ n_blocks \in 1..MaxBlocks
    /\ n_rounds \in 1..MaxRounds
    /\ pc = "idle"
    /\ Blank

NextConfig ==
    \/ ConfiguratorInit
    \/ GetTaskStateValues
    \/ SampleS1Begin
    \/ SampleS1Draw
    \/ SampleS1End
    \/ SampleS3Begin
    \/ SampleS3Draw
    \/ SampleS3End
    \/ SampleS2Begin
    \/ SampleS2Copy
    \/ SampleS2Draw
    \/ SampleS2Next
    \/ SampleS2End
    \/ SaveTaskConfig

\* Configurators asked for the run configuration of a label, one after the
\* other or one again and again.
SpecConfig == InitConfig /\ [][NextConfig]_vars

\* A cache file on disk is damaged while no Task is being constructed.
CorruptFile ==
    /\ pc = "idle"
    /\ Len(tasks) < MaxTasks
    /\ \E fn \in DOMAIN files \ unreadable : unreadable' = unreadable \cup {fn}
    /\ UNCHANGED procs
    /\ UNCHANGED <<pc, paramVars, dynVars, configVars, files, tasks, logVars,
                   setVars, shortest_dist_dic, bfsVars>>

\* Tasks constructed over a disk whose cache files may get damaged.
SpecDamage == Init /\ [][Next \/ CorruptFile]_vars

\* A grid, an empty disk, no process yet.
InitRace ==
    /\ n_blocks = 1
    /\ n_rounds = 1
    /\ dim \in 1..MaxDim
    /\ n_nodes = PostInit(dim)
    /\ n_hides = 1
    /\ pc = "idle"
    /\ Blank

NextRace ==
    \/ ProcStart
    \/ \E p \in 1..Len(procs) : ProcCheck(p)
    \/ \E p \in 1..Len(procs) : ProcLoad(p)
    \/ \E p \in 1..Len(procs) : ProcEval(p)
    \/ \E p \in 1..Len(procs) : ProcOpen(p)
    \/ \E p \in 1..Len(procs) : ProcDump(p)

\* Processes that construct a Task for the same grid at the same time.
SpecRace == InitRace /\ [][NextRace]_vars

\* A Task constructed for a run configuration of at most MaxCells rounds
\* in all, none of its methods called yet.
InitTask ==
    /\ dim \in 2..MaxConfigDim
    /\ n_nodes = PostInit(dim)
    /\ n_hides \in {h \in 1..MaxConfigHides : h <= n_nodes}
    /\ n_blocks \in 1..MaxCells
    /\ n_rounds \in {rounds \in 1..MaxCells : n_blocks * rounds <= MaxCells}
    /\ state_values \in
           {values \in RunConfigurations(n_nodes, n_hides, n_blocks, n_rounds) :
               TreasuresHidden(values, n_blocks, n_rounds)}
    /\ node_colors = Repeat(0, n_nodes)
    /\ t = 0
    /\ c = 0
    /\ s1_t = NaN
    /\ s2_t = NaN
    /\ s3_t = Repeat(NaN, n_hides)
    /\ o_t = Repeat(NaN, 1 + n_nodes)
    /\ r_t = 0
    /\ block_number = 0
    /\ pc = "ready"
    /\ BlankTables
    /\ BlankSampling

NextTask ==
    \/ StartNewBlock
    \/ StartNewRound
    \/ EvalObsFuncG
    \/ EvalActionDrill
    \/ EvalActionMove

\* A Task driven through blocks, rounds and trials in any order.
SpecTask == InitTask /\ [][NextTask]_vars

\* The caller's loop over the trials of a round begins again: for t in T.
TrialsRestart ==
    /\ pc = "ready"
    /\ t = MaxTrials
    /\ t' = 0
    /\ UNCHANGED <<pc, paramVars, node_colors, c, s1_t, s2_t, s3_t, o_t, r_t,
                   block_number, configVars, taskVars, shortest_dist_dic,
                   bfsVars>>

\* A Task with one hiding spot, constructed for MaxCells blocks of one round.
InitRun ==
    /\ InitTask
    /\ n_hides = 1
    /\ n_blocks = MaxCells

NextRun ==
    \/ NextTask
    \/ TrialsRestart

\* A Task driven through round after round of MaxTrials trials each.
SpecRun == InitRun /\ [][NextRun]_vars

\* The runs of one block.
InitResample ==
    /\ InitConfig
    /\ n_blocks = 1

\* The configurator keeps running and no draw that would change the
\* treasure location is put off for ever.
FairResample ==
    /\ WF_vars(NextConfig)
    /\ \A k \in 1..MaxConfigHides : WF_vars(SampleS2DrawSpot(k))

\* Sampling under a fair random choice among the hiding spots.
SpecResample == InitResample /\ [][NextConfig]_vars /\ FairResample

\* ------------------------------------------------------ distance table

\* |x|
Abs(x) == IF x < 0 THEN -x ELSE x

\* Row and column of a 1-based node in the dim x dim grid.
GridRow(a, d) == (a - 1) \div d
GridCol(a, d) == (a - 1) % d

\* The least number of up/down/left/right moves between two 1-based nodes.
GridDistance(a, b, d) ==
    Abs(GridRow(a, d) - GridRow(b, d)) + Abs(GridCol(a, d) - GridCol(b, d))

\* The nodes of the grid, 1-based.
Nodes == 1..n_nodes

\* eval_shortest_distances has run to its end.
DistanceTableDone == pc = "esd_done"

\* C1: after eval_shortest_distances the table has an entry for every ordered
\* pair of nodes, and each entry is the least number of grid moves between
\* the two nodes (row difference plus column difference); for dim = 3,
\* distance(1,9) = 4 and distance(1,1) = 0.
C1_DistanceTotalAndMinimal ==
    DistanceTableDone =>
        /\ DOMAIN shortest_dist_dic = Nodes \X Nodes
        /\ \A a \in Nodes, b \in Nodes :
               shortest_dist_dic[<<a, b>>] = GridDistance(a, b, dim)
        /\ dim = 3 => /\ shortest_dist_dic[<<1, 9>>] = 4
                      /\ shortest_dist_dic[<<1, 1>>] = 0

\* A finished table of the 3 x 3 grid, which has pairs the search from the
\* start node cannot reach (the end node lies to its left).
C1_Witness ==
    /\ DistanceTableDone
    /\ dim = 3
    /\ <<1, 9>> \in DOMAIN shortest_dist_dic

\* C2: in the finished table, distance(a,b) = distance(b,a) for every pair of
\* nodes and distance(a,a) = 0 for every node.
C2_DistanceSymmetric ==
    DistanceTableDone =>
        \A a \in Nodes, b \in Nodes :
            /\ <<a, b>> \in DOMAIN shortest_dist_dic
            /\ <<b, a>> \in DOMAIN shortest_dist_dic
            /\ shortest_dist_dic[<<a, b>>] = shortest_dist_dic[<<b, a>>]
            /\ shortest_dist_dic[<<a, a>>] = 0

\* A finished table with two different nodes at a positive distance.
C2_Witness ==
    /\ DistanceTableDone
    /\ \E a \in Nodes, b \in Nodes :
           /\ a # b
           /\ <<a, b>> \in DOMAIN shortest_dist_dic
           /\ shortest_dist_dic[<<a, b>>] > 0

\* C3: in the finished table, distance(a,c) <= distance(a,b) + distance(b,c)
\* for all nodes a, b, c.
C3_DistanceTriangle ==
    DistanceTableDone =>
        \A a \in Nodes, b \in Nodes, col \in Nodes :
            /\ {<<a, col>>, <<a, b>>, <<b, col>>} \subseteq DOMAIN shortest_dist_dic
            /\ shortest_dist_dic[<<a, col>>]
                   <= shortest_dist_dic[<<a, b>>] + shortest_dist_dic[<<b, col>>]

\* A finished table with three different nodes where the bound is tight.
C3_Witness ==
    /\ DistanceTableDone
    /\ \E a \in Nodes, b \in Nodes, col \in Nodes :
           /\ a # b /\ b # col /\ a # col
           /\ {<<a, col>>, <<a, b>>, <<b, col>>} \subseteq DOMAIN shortest_dist_dic
           /\ shortest_dist_dic[<<a, col>>]
                  = shortest_dist_dic[<<a, b>>] + shortest_dist_dic[<<b, col>>]

\* ------------------------------------------------------------ table S

\* The Tasks constructed so far.
Constructed == {tasks[k] : k \in 1..Len(tasks)}

\* The Task whose construction has just ended.  A constructed Task is never
\* written again, so a property of every Task is one of every newest Task.
Newest == IF pc = "idle" /\ Len(tasks) > 0 THEN {tasks[Len(tasks)]} ELSE {}

\* The three cache files of a configuration.
AllCacheFiles == {"set_S", "set_O", "shortest_dist"}

\* The columns of a row of S that hold the hiding spots.
HideColumns(row) == 3..Len(row)

\* C4: every row of the table S of a constructed Task, all n of them, has
\* its treasure location (column 2) equal to one of its hiding-spot columns;
\* a row left full of NaN has not.
C4_StateRowsFeasible ==
    \A task \in Newest :
        /\ Len(task.S) = task.n
        /\ \A r \in 1..Len(task.S) :
               \E col \in HideColumns(task.S[r]) :
                   FloatEq(task.S[r][2], task.S[r][col])

\* A Task whose S was enumerated by compute_set_S, for fewer hiding spots
\* than nodes: some triples are left out.
C4_Witness ==
    \E task \in Constructed :
        /\ task.ran.compute_set_S = 1
        /\ Len(task.S) > 0
        /\ n_hides < n_nodes

\* The rows of S the enumeration is to write: position, treasure location
\* and an ascending set of n_hides hiding spots holding the treasure.
FeasibleTriples ==
    {row \in {<<p, tr>> \o Ascending(H) :
                  p \in Nodes, tr \in Nodes,
                  H \in {X \in SUBSET Nodes : Cardinality(X) = n_hides}} :
        \E col \in HideColumns(row) : row[col] = row[2]}

\* Lexicographic order on two rows of one length.
LexLess(r1, r2) ==
    \E col \in 1..Len(r1) :
        /\ r1[col] < r2[col]
        /\ \A b \in 1..(col - 1) : r1[b] = r2[b]

\* C5: compute_set_S writes every feasible triple exactly once, ordered by
\* position, then treasure location, then hiding-spot set in lexicographic
\* order, each set stored ascending.
C5_StateRowsEnumeratedInOrder ==
    \A task \in Newest :
        /\ {task.S[r] : r \in 1..Len(task.S)} = FeasibleTriples
        /\ Len(task.S) = Cardinality(FeasibleTriples)
        /\ \A r \in 1..(Len(task.S) - 1) : LexLess(task.S[r], task.S[r + 1])
        /\ \A r \in 1..Len(task.S) :
               \A col \in HideColumns(task.S[r]) :
                   col + 1 \in HideColumns(task.S[r]) =>
                       task.S[r][col] < task.S[r][col + 1]

\* A Task whose S was enumerated for several positions, treasure locations
\* and hiding-spot sets of two spots or more.
C5_Witness ==
    \E task \in Constructed :
        /\ task.ran.compute_set_S = 1
        /\ Len(task.S) > n_nodes
        /\ n_hides >= 2
        /\ n_hides < n_nodes

\* ------------------------------------------------------------ table O

\* The number of colour columns of a row of O that hold colour.
ColourCount(row, colour) ==
    Cardinality({col \in 2..Len(row) : row[col] = colour})

\* C6, as stated: every row of O has exactly n_hides blue (2) entries,
\* exactly n_nodes - n_hides grey (1) entries and no unvisited (0) entry in
\* its colour columns.
C6_ObservationRowsFullyRevealed ==
    \A task \in Newest :
        \A r \in 1..Len(task.O_) :
            /\ ColourCount(task.O_[r], 2) = n_hides
            /\ ColourCount(task.O_[r], 1) = n_nodes - n_hides
            /\ ColourCount(task.O_[r], 0) = 0

\* C6, amended: every row of O has n_nodes colour columns holding at most
\* n_hides blue (2) entries, at most n_nodes - n_hides grey (1) entries and
\* unvisited (0) entries elsewhere; the row without any revealed colour is
\* one of them.
C6_ObservationRowsPartlyRevealed ==
    \A task \in Newest :
        /\ \A r \in 1..Len(task.O_) :
               /\ Len(task.O_[r]) = 1 + n_nodes
               /\ task.O_[r][1] \in {0, 1}
               /\ \A col \in 2..(1 + n_nodes) : task.O_[r][col] \in {0, 1, 2}
               /\ ColourCount(task.O_[r], 2) <= n_hides
               /\ ColourCount(task.O_[r], 1) <= n_nodes - n_hides
        /\ \E r \in 1..Len(task.O_) : ColourCount(task.O_[r], 0) = n_nodes

\* A Task whose O was enumerated by compute_set_O and holds a row with all
\* hiding spots blue and as many grey entries as there are other nodes.
C6_Witness ==
    \E task \in Constructed :
        /\ task.ran.compute_set_O = 1
        /\ n_hides < n_nodes
        /\ \E r \in 1..Len(task.O_) :
               /\ ColourCount(task.O_[r], 2) = n_hides
               /\ ColourCount(task.O_[r], 1) = n_nodes - n_hides

\* compute_O_cardinality_m has just run compute_O2.
ColoursEnumerated == pc = "init_alloc"

\* C7, as stated: for every configuration the number of colour assignments
\* enumerated by compute_O2 is strictly smaller than n_nodes!.
C7_FewerThanFactorial ==
    ColoursEnumerated => Len(O2) < factorial(n_nodes)

\* C7, amended: the number of colour assignments enumerated by compute_O2 is
\* strictly smaller than n_nodes! for every grid of dimension 3 or more, and
\* on the 2 x 2 grid when every node is a hiding spot; it is not on the
\* 1 x 1 grid and on the 2 x 2 grid with fewer than 4 hiding spots.
C7_FewerThanFactorialFromDim3 ==
    ColoursEnumerated =>
        (Len(O2) < factorial(n_nodes)
            <=> (dim >= 3 \/ (dim = 2 /\ n_hides = n_nodes)))

\* The colour assignments of a 3 x 3 grid with fewer hiding spots than nodes.
C7_Witness ==
    /\ ColoursEnumerated
    /\ dim = 3
    /\ n_hides < n_nodes
    /\ Len(O2) > 0

\* ------------------------------------------------------------ the cache

\* C8: starting from an empty cache, every construction of a Task for one
\* configuration yields the same distance table, S and O: a later one loads
\* from the files exactly what the first computed and saved.
C8_SameTablesFromCache ==
    \A k \in 1..Len(tasks) :
        /\ tasks[k].S = tasks[1].S
        /\ tasks[k].O_ = tasks[1].O_
        /\ tasks[k].shortest_dist_dic = tasks[1].shortest_dist_dic
        /\ k = 1 => /\ tasks[k].loaded = {}
                    /\ tasks[k].ran.eval_shortest_distances = 1
                    /\ tasks[k].ran.compute_set_S = 1
                    /\ tasks[k].ran.compute_set_O = 1
        /\ k > 1 => tasks[k].loaded = AllCacheFiles

\* A second Task, constructed from the three files of a grid with more than
\* one node.
C8_Witness ==
    /\ Len(tasks) >= 2
    /\ tasks[2].loaded = AllCacheFiles
    /\ n_nodes > 1
    /\ DOMAIN tasks[2].shortest_dist_dic = Nodes \X Nodes

\* C9: a construction that finds its three cache files runs no enumeration:
\* not eval_shortest_distances, not compute_set_S, not compute_O2, not
\* compute_set_O.
C9_NoEnumerationWhenCached ==
    \A task \in Constructed :
        task.loaded = AllCacheFiles => task.ran = NothingRan

\* ------------------------------------------------- run configurations

\* sample_task_states has sampled s1, s3 and s2.
Sampled == pc \in {"save_task_config", "returned"}

\* C10: in every run configuration produced by sample_task_states, for every
\* block b and round c, s2[b,c] is one of the hiding spots s3[b] and differs
\* from s1[b,c]; the n_hides entries of s3[b] are pairwise distinct; all
\* values of s1, s2 and s3 are nodes, 1..n_nodes.
C10_SampledStatesConsistent ==
    Sampled =>
        /\ DOMAIN state_values = {"s1", "s2", "s3"}
        /\ \A key \in {"s1", "s2", "s3"} : Len(state_values[key]) = n_blocks
        /\ \A b \in 1..n_blocks :
               /\ Len(state_values["s1"][b]) = n_rounds
               /\ Len(state_values["s2"][b]) = n_rounds
               /\ Len(state_values["s3"][b]) = n_hides
               /\ \A col \in 1..n_rounds :
                      /\ InSeq(state_values["s2"][b][col], state_values["s3"][b])
                      /\ state_values["s2"][b][col] # state_values["s1"][b][col]
                      /\ state_values["s1"][b][col] \in Nodes
                      /\ state_values["s2"][b][col] \in Nodes
               /\ \A j, k \in 1..n_hides :
                      /\ state_values["s3"][b][j] \in Nodes
                      /\ j # k => state_values["s3"][b][j] # state_values["s3"][b][k]

\* A saved configuration of two blocks with different hiding spots and two
\* rounds each, with a start position on a hiding spot: the treasure of that
\* round was drawn more than once or drawn right.
C10_Witness ==
    /\ pc = "returned"
    /\ n_blocks = 2
    /\ n_rounds = 2
    /\ n_hides = 2
    /\ state_values["s3"][1] # state_values["s3"][2]
    /\ InSeq(state_values["s1"][2][2], state_values["s3"][2])
    /\ state_values["s2"][1][1] # state_values["s2"][1][2]

\* The positions of sample_task_states.
SamplingPositions ==
    {"sample_s1", "s1_loop", "sample_s3", "s3_loop", "sample_s2", "s2_loop",
     "s2_while", "save_task_config"}

\* The arrays saved in the directory of the label asked for.
Persisted ==
    [key \in {"s1", "s2", "s3"} |-> NpLoad(files[NpyFile(this_state_sample, key)])]

\* A step from a state where the directory of the label is there samples
\* nothing and writes nothing.
SavedStaysSaved ==
    this_state_sample \in dirs =>
        (files' = files /\ dirs' = dirs /\ pc' \notin SamplingPositions)

\* C11: over any sequence of get_task_state_values calls with one label,
\* sampling and saving happen on the first call only: once the directory of
\* the label is there, nothing is sampled and no file is written, and every
\* call returns s1, s2, s3 equal to the saved ones, so two loads return the
\* same.
C11_SampledOnceThenLoaded ==
    /\ [](pc = "returned" =>
            /\ this_state_sample \in dirs
            /\ \A key \in {"s1", "s2", "s3"} :
                   state_values[key] = Persisted[key])
    /\ [][SavedStaysSaved]_vars

\* The third call of three, by a new configurator, has loaded a saved
\* configuration of two blocks of two rounds whose rows and columns differ.
C11_Witness ==
    /\ calls = 3
    /\ pc = "returned"
    /\ Len(state_values["s1"]) = 2
    /\ Len(state_values["s1"][1]) = 2
    /\ state_values["s1"][1][2] # state_values["s1"][2][1]

\* C12: with two hiding spots or more, the loop of sample_s2 that draws the
\* treasure location again is left for every block and round, whatever start
\* position and hiding spots were sampled, under a fair choice among the
\* hiding spots.
C12_ResamplingTerminates ==
    (n_hides >= 2 /\ pc = "s2_while") ~> (pc = "s2_loop")

\* The loop is entered for a start position that is one of two hiding spots
\* or more: a draw can fail.
C12_Witness ==
    /\ n_hides >= 2
    /\ pc = "s2_while"
    /\ s2[block + 1][round_ + 1] = state_values["s1"][block + 1][round_ + 1]
    /\ InSeq(state_values["s1"][block + 1][round_ + 1],
             state_values["s3"][block + 1])

\* ------------------------------------------------- the trial dynamics

\* A round has been started: there is a current position.
RoundStarted == s1_t # NaN

\* The colour entry of node p, the p-th of the array.
ColourOfNode(colors, p) == colors[p]

\* A step of start_new_block binds the hiding spots of the block asked for
\* and leaves every node unvisited.
BlockStartResets ==
    StartNewBlock =>
        /\ s3_t' = state_values["s3"][block_number' + 1]
        /\ node_colors' = Repeat(0, n_nodes)

\* C13: start_new_block(b) binds the current hiding spots to those of block
\* b and resets the node colours to all unvisited (0): no colour revealed in
\* an earlier block is visible after a block start.
C13_BlockStartResetsColours == [][BlockStartResets]_vars

\* A step of the drill at position p completes and colours node p, the p-th
\* entry, grey off the hiding spots and blue on them, and no other entry.
DrillColoursNode ==
    EvalActionDrill =>
        /\ pc' = "ready"
        /\ node_colors' = [node_colors EXCEPT ![s1_t] =
                              IF InArray(s1_t, s3_t) THEN 2 ELSE 1]

\* C14: for every position p in 1..n_nodes a drill (action 0) at p completes
\* without error and sets the colour of node p itself, the p-th colour entry,
\* to grey (1) if p is no current hiding spot and to blue (2) if it is, and
\* leaves every other colour as it was.
C14_DrillColoursOwnNode == [][DrillColoursNode]_vars

\* A step of the drill at a node that is grey or blue leaves the colours as
\* they were.
DrillKeepsRevealed ==
    (EvalActionDrill /\ ColourOfNode(node_colors, s1_t) \in {1, 2}) =>
        node_colors' = node_colors

\* C15: in every state reached through block starts, round starts and
\* trials, a drill at a node whose colour is grey or blue already leaves the
\* whole node-colour array unchanged.
C15_DrillOnRevealedNodeNoEffect == [][DrillKeepsRevealed]_vars

\* C16: from a round start with the position off the treasure, along any
\* moves passed to eval_action, the reward flag is 1 after a trial exactly
\* if the position is the treasure location then: 0 on every trial before
\* the position becomes the treasure location, 1 on the trial it does.
C16_RewardIffOnTreasure ==
    RoundStarted =>
        /\ r_t \in {0, 1}
        /\ r_t = 1 <=> s1_t = s2_t

\* Two moves and no drill: the second one has reached the treasure.
C16_Witness ==
    /\ RoundStarted
    /\ t = 2
    /\ node_colors = Repeat(0, n_nodes)
    /\ s1_t = s2_t
    /\ r_t = 1

\* A step of start_new_round binds position and treasure location of the
\* block and round asked for, resets the reward flag, and leaves the node
\* colours and the current hiding spots alone.
RoundStartBinds ==
    StartNewRound =>
        /\ c' \in 0..(n_rounds - 1)
        /\ s1_t' = state_values["s1"][block_number' + 1][c' + 1]
        /\ s2_t' = state_values["s2"][block_number' + 1][c' + 1]
        /\ r_t' = 0
        /\ node_colors' = node_colors
        /\ s3_t' = s3_t

\* C17: start_new_round(b, c) sets the current position to s1[b,c], the
\* current treasure location to s2[b,c], the round index to c and the reward
\* flag to 0, and leaves the node colours and the current hiding spots
\* unchanged.
C17_RoundStartBindsCell == [][RoundStartBinds]_vars

\* The second block's round has been started after a reward and a drill, in
\* a run whose blocks start at different nodes.
C17_Witness ==
    /\ n_blocks = 2
    /\ block_number = 1
    /\ RoundStarted
    /\ s1_t = state_values["s1"][2][1]
    /\ state_values["s1"][1][1] # state_values["s1"][2][1]
    /\ r_t = 0
    /\ t = 2
    /\ node_colors # Repeat(0, n_nodes)

\* A step of eval_obs_func_g writes the flag and all the node colours.
ObservationIsFlagAndColours ==
    EvalObsFuncG =>
        /\ Len(o_t') = 1 + n_nodes
        /\ o_t'[1] = (IF r_t = 1 THEN 1 ELSE 0)
        /\ \A k \in 1..n_nodes : o_t'[k + 1] = node_colors[k]

\* C18: after eval_obs_func_g the first component of the observation is 1
\* if the reward flag is 1 and 0 if not, and the n_nodes others are the
\* whole current node-colour array, not the colour of the current node
\* alone.
C18_ObservationFlagAndAllColours == [][ObservationIsFlagAndColours]_vars

\* An observation with the flag up and a colour revealed off the current
\* position.
C18_Witness ==
    /\ RoundStarted
    /\ r_t = 1
    /\ Len(o_t) = 1 + n_nodes
    /\ o_t[1] = 1
    /\ \E k \in 1..n_nodes : k # s1_t /\ o_t[k + 1] \in {1, 2}

\* ------------------------------------------------- damaged cache files

\* The cache file the construction under way is about to load, if any.
FileToLoad ==
    CASE pc = "S_load" -> {CreateMatrixFn("set_S", n_nodes, n_hides)}
      [] pc = "O_load" -> {CreateMatrixFn("set_O", n_nodes, n_hides)}
      [] pc = "D_load" -> {ShortDistFn(dim)}
      [] OTHER -> {}

\* The construction has failed with the error of the load.
Failed == pc \in {"UnpicklingError", "JSONDecodeError"}

\* A step that meets an unreadable cache file fails, and no step computes a
\* table in its place or writes an unreadable file again.
UnreadableIsFatal ==
    /\ FileToLoad \cap unreadable # {} =>
           /\ pc' \in {"UnpicklingError", "JSONDecodeError"}
           /\ ran' = ran
           /\ tasks' = tasks
    /\ \A fn \in unreadable : fn \in unreadable' /\ files'[fn] = files[fn]

\* C20: if a cache file of the requested key is there but cannot be read or
\* parsed, the construction of the Task fails with an error: the table is
\* not computed again and the file is not overwritten.
C20_UnreadableCacheIsFatal ==
    /\ [][UnreadableIsFatal]_vars
    /\ [](Failed => FileToLoad = {} /\ unreadable # {} /\ ~ENABLED Next)

\* The construction of a second Task has failed on the damaged file of the
\* distance table, after it had loaded S and O.
C20_Witness ==
    /\ pc = "JSONDecodeError"
    /\ Len(tasks) = 1
    /\ loaded = {"set_S", "set_O"}
    /\ ShortDistFn(dim) \in unreadable
    /\ ran.eval_shortest_distances = 0

\* ------------------------------------------- infeasible configurations

\* The configuration leaves no node for the treasure: every node is a hiding
\* spot, or the single hiding spot of a block is a start position of one of
\* its rounds.
Infeasible ==
    \/ n_hides >= n_nodes
    \/ /\ n_hides = 1
       /\ {"s1", "s3"} \subseteq DOMAIN state_values
       /\ \E b \in 1..n_blocks, r \in 1..n_rounds :
              state_values["s1"][b][r] = state_values["s3"][b][1]

\* C19: an infeasible configuration is rejected with an error when the
\* configuration is constructed: it never enters the resampling loop of
\* sample_s2 and is never accepted, that is saved or returned.
C19_InfeasibleRejected ==
    Infeasible => pc \notin {"s2_loop", "s2_while", "save_task_config", "returned"}

\* ------------------------------------------- processes racing for a file

\* Every process has left compute_or_load_shortest_distances.
AllDone ==
    /\ Len(procs) = MaxProcs
    /\ \A p \in 1..Len(procs) : procs[p].pc = "done"

\* C21: when processes construct a Task for the same grid at the same time
\* and no cache file is there, no process finds the file present while it
\* is only partly written, no process fails, and once all are through, the
\* file holds the complete table.
C21_RaceIsHarmless ==
    /\ \A p \in 1..Len(procs) :
           /\ procs[p].pc # "JSONDecodeError"
           /\ procs[p].pc = "D_load" => ShortDistFn(dim) \notin unreadable
    /\ AllDone =>
           /\ Exists(ShortDistFn(dim))
           /\ ShortDistFn(dim) \notin unreadable
           /\ JsonLoad(files[ShortDistFn(dim)]) =
                  EvalShortestDistances(EmptyDict, dim, n_nodes)

\* ------------------------------------------- blocks and rounds of a run

\* The shape of an array of at least one row.
Shape(array) == <<Len(array), Len(array[1])>>

\* A step of get_task_state_values that loads sets the numbers of blocks and
\* rounds to the rows and columns of the s1 file; a step that samples leaves
\* them alone, and the arrays it returns have the shapes they give.
RunParametersFollow ==
    /\ (pc \in {"idle", "returned"} /\ pc' = "returned") =>
           /\ n_blocks' = files[NpyFile(this_state_sample', "s1")].shape[1]
           /\ n_rounds' = files[NpyFile(this_state_sample', "s1")].shape[2]
           /\ Shape(state_values'["s1"]) = <<n_blocks', n_rounds'>>
    /\ (pc \in SamplingPositions \/ pc' \in SamplingPositions) =>
           UNCHANGED <<n_blocks, n_rounds>>
    /\ (pc = "save_task_config" /\ pc' = "returned") =>
           /\ Shape(state_values'["s1"]) = <<n_blocks, n_rounds>>
           /\ Shape(state_values'["s2"]) = <<n_blocks, n_rounds>>
           /\ Shape(state_values'["s3"]) = <<n_blocks, n_hides>>
           /\ \A b \in 1..n_blocks :
                  /\ Len(state_values'["s1"][b]) = n_rounds
                  /\ Len(state_values'["s2"][b]) = n_rounds
                  /\ Len(state_values'["s3"][b]) = n_hides

\* C22: when get_task_state_values loads a saved configuration, n_blocks and
\* n_rounds are afterwards the numbers of rows and columns of the loaded s1,
\* whatever the caller supplied; when it samples, they are unchanged, s1 and
\* s2 have shape (n_blocks, n_rounds) and s3 has shape (n_blocks, n_hides).
C22_RunParametersFromLoadedShape == [][RunParametersFollow]_vars

\* The second call has loaded a configuration of two blocks of one round.
C22_Witness ==
    /\ pc = "returned"
    /\ calls = 2
    /\ Shape(state_values["s1"]) = <<2, 1>>
    /\ n_blocks = 2
    /\ n_rounds = 1

\* ------------------------------------------------------- adjacency list

\* The adjacency list has been built.
AdjacencyBuilt == pc \in {"esd_pair", "esd_next", "esd_while", "esd_done"}

\* C23: the adjacency list built inside eval_shortest_distances lists, for
\* every node, exactly its up, down, left and right neighbours inside the
\* grid: j is listed for i iff i is listed for j, and the last node of a row
\* is never linked with the first node of the next row.
C23_AdjacencyFourNeighbours ==
    AdjacencyBuilt =>
        /\ DOMAIN adj_list = 0..(n_nodes - 1)
        /\ \A a \in 0..(n_nodes - 1), b \in 0..(n_nodes - 1) :
               /\ InSeq(b, adj_list[a]) <=> GridDistance(a + 1, b + 1, dim) = 1
               /\ InSeq(b, adj_list[a]) <=> InSeq(a, adj_list[b])

\* ----------------------------------------------------- the rows of S

\* compute_set_S has run through its loops in the construction under way.
EnumerationOfSDone == pc = "S_save"

\* C24: for every 1 <= n_hides <= n_nodes, the enumeration of compute_set_S
\* writes exactly n = n_nodes * n_hides * C(n_nodes, n_hides) rows, the
\* number compute_S_cardinality_n returned and S was allocated with: it never
\* writes past the last row and leaves no allocated row unfilled.
C24_EnumerationFillsAllocatedRows ==
    /\ pc # "IndexError"
    /\ EnumerationOfSDone =>
           /\ n = n_nodes * n_hides
                      * Cardinality({spots \in SUBSET (1..n_nodes) :
                                         Cardinality(spots) = n_hides})
           /\ Len(S) = n
           /\ i = n
           /\ \A k \in 1..Len(S) : \A col \in 1..Len(S[k]) : S[k][col] # NaN

\* The 48 rows of the 2 x 2 grid with two hiding spots have been written.
C24_Witness ==
    /\ EnumerationOfSDone
    /\ n_nodes = 4
    /\ n_hides = 2
    /\ i = 48

\* ------------------------------------------ observations and the table O

\* eval_obs_func_g has produced an observation.
Observed == \A k \in 1..Len(o_t) : o_t[k] # NaN

\* C25: in every state of a run over any number of blocks, rounds and trial
\* steps, the vector of reward flag and node colours that eval_obs_func_g
\* produced is a row of the table O: its flag is 0 or 1, at most n_hides of
\* its colours are blue and at most n_nodes - n_hides are grey.
C25_ObservationIsRowOfO ==
    Observed =>
        /\ Len(o_t) = 1 + n_nodes
        /\ o_t[1] \in {0, 1}
        /\ \A k \in 2..Len(o_t) : o_t[k] \in {0, 1, 2}
        /\ ColourCount(o_t, 2) <= n_hides
        /\ ColourCount(o_t, 1) <= n_nodes - n_hides

\* ------------------------------------- the reward flag over a whole run

\* A drill leaves the reward flag and the position as they were.
DrillKeepsReward ==
    EvalActionDrill => (r_t' = r_t /\ s1_t' = s1_t /\ s2_t' = s2_t)

\* C26: for a configuration with s1 # s2 in every round, in every state
\* reached after a round start by moves and drills in any order, the reward
\* flag is 1 iff the current position is the current treasure location; a
\* drill leaves the flag at its previous value.
C26_RewardFlagTracksTreasure ==
    /\ [](RoundStarted => (r_t = 1 <=> s1_t = s2_t))
    /\ [](RoundStarted => (r_t = 0 <=> s1_t # s2_t))
    /\ [][DrillKeepsReward]_vars

\* A drill on the treasure location, reached by a move, has coloured a node
\* and the flag is still up.
C26_Witness ==
    /\ pc = "ready"
    /\ RoundStarted
    /\ s1_t = s2_t
    /\ r_t = 1
    /\ t = 2
    /\ s1_t < n_nodes
    /\ node_colors[s1_t + 1] = 2

\* ------------------------------------------------ the position on the grid

\* A step of eval_action with a move adds the displacement of a legal move
\* to the position, and nothing else decides the new position.
MoveAddsDisplacement ==
    EvalActionMove =>
        \E k \in 2..Len(A(dim)) :
            /\ LegalMove(s1_t, A(dim)[k], dim, n_nodes)
            /\ s1_t' = s1_t + A(dim)[k]
            /\ Abs(GridRow(s1_t', dim) - GridRow(s1_t, dim))
                   + Abs(GridCol(s1_t', dim) - GridCol(s1_t, dim)) = 1

\* C27: for a configuration with start positions in 1..n_nodes, if every
\* directional action passed to eval_action is a legal grid move from the
\* current position, the current position is in 1..n_nodes in every
\* reachable state; the engine adds the displacement and checks nothing.
C27_PositionStaysOnGrid ==
    /\ [](RoundStarted => s1_t \in 1..n_nodes)
    /\ [][MoveAddsDisplacement]_vars

\* Two moves have taken the position from the first node to the last.
C27_Witness ==
    /\ RoundStarted
    /\ t = 2
    /\ node_colors = Repeat(0, n_nodes)
    /\ Cell(state_values, "s1", block_number, c) = 1
    /\ s1_t = n_nodes

\* ------------------------------------------ what eval_action leaves alone

\* The entries in which two colour arrays differ.
ChangedEntries(before, after) ==
    {k \in 1..Len(before) : after[k] # before[k]}

\* A move changes position and reward flag only, a drill at most one colour
\* entry only, and neither writes the stored observation.
EvalActionFrame ==
    /\ EvalActionMove =>
           /\ s1_t' # s1_t
           /\ node_colors' = node_colors
           /\ s2_t' = s2_t
           /\ s3_t' = s3_t
           /\ o_t' = o_t
    /\ EvalActionDrill =>
           /\ Len(node_colors') = Len(node_colors)
           /\ Cardinality(ChangedEntries(node_colors, node_colors')) <= 1
           /\ s1_t' = s1_t
           /\ s2_t' = s2_t
           /\ s3_t' = s3_t
           /\ r_t' = r_t
           /\ o_t' = o_t

\* C28: eval_action changes only what its kind of action owns: a move changes
\* position and reward flag and leaves node colours, treasure location and
\* hiding spots unchanged; a drill changes at most one node-colour entry and
\* leaves position, treasure location, hiding spots and reward flag
\* unchanged; neither changes the stored observation o_t, which stays stale
\* until eval_obs_func_g is called.
C28_EvalActionChangesOnlyItsOwn == [][EvalActionFrame]_vars

\* An observation taken before a move and a drill: it shows neither the
\* reward nor the colour revealed since.
C28_Witness ==
    /\ pc = "ready"
    /\ t = 2
    /\ Observed
    /\ o_t[1] = 0
    /\ r_t = 1
    /\ SubSeq(o_t, 2, Len(o_t)) = Repeat(0, n_nodes)
    /\ node_colors # Repeat(0, n_nodes)

\* ------------------------------------- the run configuration stays as is

\* No step writes s1, s2 or s3, and a block or round start binds what the
\* arrays hold.
ConfigurationKept ==
    /\ state_values' = state_values
    /\ StartNewRound =>
           /\ s1_t' = state_values["s1"][block_number' + 1][c' + 1]
           /\ s2_t' = state_values["s2"][block_number' + 1][c' + 1]
    /\ StartNewBlock => s3_t' = state_values["s3"][block_number' + 1]

\* C29: no operation of the Task (start_new_block, start_new_round,
\* eval_action, eval_obs_func_g) modifies the arrays s1, s2, s3 it was
\* constructed with: after any trial steps, starting the same block and
\* round again binds the same start position, treasure location and hiding
\* spots as the first time.
C29_ConfigurationNeverWritten ==
    /\ [][ConfigurationKept]_vars
    /\ [](TreasuresHidden(state_values, n_blocks, n_rounds))

\* The only round of the run has been started again after a move and a
\* drill at the node moved to: the position is the start position again.
C29_Witness ==
    /\ n_blocks = 1
    /\ n_rounds = 1
    /\ t = 2
    /\ s1_t = state_values["s1"][1][1]
    /\ s2_t = state_values["s2"][1][1]
    /\ r_t = 0
    /\ \E k \in 1..(n_nodes - 1) :
           /\ k # s1_t
           /\ node_colors[k + 1] # 0
           /\ \A j \in 1..n_nodes : j # k + 1 => node_colors[j] = 0

\* ------------------------------------------- the searches come to an end

\* No node is listed twice in explored.
ExploredOnce ==
    \A j, k \in 1..Len(explored) : j # k => explored[j] # explored[k]

\* C30: eval_shortest_distances terminates for every dim >= 1: the search of
\* every pair ends, by discovering the end node or by emptying its queue
\* when the end node is never discovered from the start node, because no
\* explored node is expanded again.
C30_SearchesTerminate ==
    /\ <>DistanceTableDone
    /\ (pc = "esd_while") ~> (pc = "esd_next")
    /\ [](ExploredOnce /\ Len(explored) <= n_nodes)

\* A search has ended on an empty queue without discovering its end node,
\* having explored more than one node.
C30_Witness ==
    /\ pc = "esd_next"
    /\ start_node # end_node
    /\ queue = <<>>
    /\ Len(explored) > 1
    /\ ~InSeq(end_node, explored)
    /\ Key(start_node, end_node) \notin DOMAIN shortest_dist_dic

====
